---- MODULE Spec2Model ----
(***************************************************************************)
(* Model of renderer.py: the NetHack TTY image renderer.                   *)
(*                                                                         *)
(* State: the renderer's tables built by ImageRenderer.__init__, the font  *)
(* the backend loaded, the module-global TILE_CACHE, and the arguments,    *)
(* locals and result of the last call.  Arrays are modelled at their real  *)
(* sizes (24x80 cells, 16x8 pixel tiles, 256-entry lookup).                *)
(*                                                                         *)
(* A bitmap is kept as the window [0..rows-1] x [0..cols-1] of the         *)
(* backend's drawing of one glyph with one ink and one fill colour; its    *)
(* pixels are given by Pixel.  struct.pack('I', ...) is modelled with the  *)
(* little-endian byte order of the supported platforms.                    *)
(***************************************************************************)
EXTENDS Integers, Sequences, FiniteSets, TLC

VARIABLES
  font,            \* metrics of self._font, fixed by pg.font.SysFont
  colors_map,      \* self._colors_map
  bgcolors,        \* self._bgcolors
  specials_map,    \* self._specials_map
  TILE_CACHE,      \* the module-global tile cache: key -> bitmap
  backend_calls,   \* how often self._font.render ran, per cache key
  call,            \* the last call: operation, arguments, locals, result
  ncalls           \* number of calls made so far

vars == <<font, colors_map, bgcolors, specials_map, TILE_CACHE,
          backend_calls, call, ncalls>>

\* ------------------------------------------------------------------ bounds
\* Calls per behaviour when every frame is tried, and when a few frames and
\* tiles are replayed against the cache the earlier calls left.
MaxFrames == 1
MaxCalls == 2

\* ------------------------------------------------------- program constants
\* Terminal grid and tile geometry.
ROWS == 24
COLS == 80
TILE_ROWS == 16
TILE_COLS == 8

\* nethack's glyph flag masks, as _pynethack.nethack exports them.
MG_CORPSE == 1
MG_INVIS == 2
MG_DETECT == 4
MG_PET == 8
MG_RIDDEN == 16
MG_STATUE == 32
MG_OBJPILE == 64
MG_BW_LAVA == 128

\* A hex string is the sequence of its characters.
FOREGROUND_COLORS ==
  << <<"#","0","0","0","0","0","0">>,
     <<"#","7","7","0","0","0","0">>,
     <<"#","0","0","7","7","0","0">>,
     <<"#","a","a","7","7","0","0">>,
     <<"#","0","0","0","0","7","7">>,
     <<"#","a","a","0","0","a","a">>,
     <<"#","0","0","a","a","a","a">>,
     <<"#","f","f","f","f","f","f">>,
     <<"#","8","8","8","8","8","8">>,
     <<"#","f","f","0","0","0","0">>,
     <<"#","0","0","f","f","0","0">>,
     <<"#","f","f","f","f","0","0">>,
     <<"#","0","0","0","0","f","f">>,
     <<"#","f","f","0","0","f","f">>,
     <<"#","0","0","f","f","f","f">>,
     <<"#","f","f","f","f","f","f">> >>

BACKGROUND_COLORS ==
  [cursor  |-> <<"#","5","5","5","5","5","5">>,
   corpse  |-> <<"#","0","0","0","0","a","a">>,
   invis   |-> <<"#","3","3","3","3","3","3">>,
   detect  |-> <<"#","3","3","3","3","3","3">>,
   pet     |-> <<"#","f","f","f","f","f","f">>,
   ridden  |-> <<"#","3","3","3","3","3","3">>,
   statue  |-> <<"#","3","3","3","3","3","3">>,
   objpile |-> <<"#","3","3","3","3","3","3">>,
   bwlava  |-> <<"#","3","3","0","0","0","0">>,
   default |-> <<"#","0","0","0","0","0","0">>]

\* ------------------------------------------------------------ pure helpers
Min(a, b) == IF a < b THEN a ELSE b

\* int(d, 16) of one hex digit.
HexDigit(d) ==
  CASE d = "0" -> 0 [] d = "1" -> 1 [] d = "2" -> 2 [] d = "3" -> 3
    [] d = "4" -> 4 [] d = "5" -> 5 [] d = "6" -> 6 [] d = "7" -> 7
    [] d = "8" -> 8 [] d = "9" -> 9 [] d = "a" -> 10 [] d = "b" -> 11
    [] d = "c" -> 12 [] d = "d" -> 13 [] d = "e" -> 14 [] d = "f" -> 15

\* int(s, 16) of a sequence of hex digits.
RECURSIVE HexInt(_)
HexInt(s) ==
  IF s = <<>> THEN 0
  ELSE 16 * HexInt(SubSeq(s, 1, Len(s) - 1)) + HexDigit(s[Len(s)])

\* struct.unpack('4B', struct.pack('I', n)): the four bytes, lowest first.
PackUnpack(n) ==
  << n % 256, (n \div 256) % 256, (n \div 65536) % 256,
     (n \div 16777216) % 256 >>

hex_string_to_color_tuple(hex_string) ==
  LET color_three_bytes == HexInt(Tail(hex_string))
      bytes == PackUnpack(color_three_bytes)
      blue  == bytes[1]
      green == bytes[2]
      red   == bytes[3]
  IN  <<red, green, blue>>

\* a & b on non-negative integers.
RECURSIVE BitAnd(_, _)
BitAnd(a, b) ==
  IF a = 0 \/ b = 0 THEN 0
  ELSE (a % 2) * (b % 2) + 2 * BitAnd(a \div 2, b \div 2)

\* A faulty variant: the pet test runs ahead of the corpse test.
get_special_background_pet_first(special) ==
  IF BitAnd(special, MG_PET) # 0 THEN "pet"
  ELSE IF BitAnd(special, MG_CORPSE) # 0 THEN "corpse"
  ELSE IF BitAnd(special, MG_INVIS) # 0 THEN "invis"
  ELSE IF BitAnd(special, MG_DETECT) # 0 THEN "detect"
  ELSE IF BitAnd(special, MG_RIDDEN) # 0 THEN "ridden"
  ELSE IF BitAnd(special, MG_STATUE) # 0 THEN "statue"
  ELSE IF BitAnd(special, MG_OBJPILE) # 0 THEN "objpile"
  ELSE IF BitAnd(special, MG_BW_LAVA) # 0 THEN "bwlava"
  ELSE "default"

get_special_background(special) ==
  IF BitAnd(special, MG_CORPSE) # 0 THEN "corpse"
  ELSE IF BitAnd(special, MG_INVIS) # 0 THEN "invis"
  ELSE IF BitAnd(special, MG_DETECT) # 0 THEN "detect"
  ELSE IF BitAnd(special, MG_PET) # 0 THEN "pet"
  ELSE IF BitAnd(special, MG_RIDDEN) # 0 THEN "ridden"
  ELSE IF BitAnd(special, MG_STATUE) # 0 THEN "statue"
  ELSE IF BitAnd(special, MG_OBJPILE) # 0 THEN "objpile"
  ELSE IF BitAnd(special, MG_BW_LAVA) # 0 THEN "bwlava"
  ELSE "default"

\* Character codes used below: ord(' '), ord('0'), ord('`').
ORD_SPACE == 32
ORD_ZERO == 48
ORD_BACKTICK == 96

represent_char(c) ==
  IF c = 0 THEN ORD_SPACE
  ELSE IF c = ORD_BACKTICK THEN ORD_ZERO
  ELSE c

\* A faulty variant of np.clip: the value wraps around the range.
ClipWrapped(v, lo, hi) == lo + ((v - lo) % (hi - lo + 1))

\* np.clip(v, lo, hi) of one element.
Clip(v, lo, hi) == IF v < lo THEN lo ELSE IF v > hi THEN hi ELSE v

\* Python's None, and the test `x is None`.
None == [none |-> TRUE]
IsNone(x) == "none" \in DOMAIN x

\* ------------------------------------------------------------------ arrays
\* A 2-d numpy array is the record of its shape and its elements at[r][c],
\* indexed from 0.
\* np.zeros((h, w, 3)): every cell the triple (0, 0, 0).
Zeros(h, w) ==
  [rows |-> h, cols |-> w,
   at |-> [r \in 0 .. h - 1 |-> [c \in 0 .. w - 1 |-> <<0, 0, 0>>]]]

\* table[np.clip(a, lo, hi)]: an array of a's shape.
ClipLookup(table, a, lo, hi) ==
  [rows |-> a.rows, cols |-> a.cols,
   at |-> [r \in 0 .. a.rows - 1 |->
             [c \in 0 .. a.cols - 1 |-> table[Clip(a.at[r][c], lo, hi)]]]]

\* np.clip(a, lo, hi)
ClipArray(a, lo, hi) ==
  [rows |-> a.rows, cols |-> a.cols,
   at |-> [r \in 0 .. a.rows - 1 |->
             [c \in 0 .. a.cols - 1 |-> Clip(a.at[r][c], lo, hi)]]]

\* A faulty variant of np.pad: the rows meant for the bottom go on top.
PadBottomFirst(a, top, bottom, left, right) ==
  [rows |-> a.rows + top + bottom, cols |-> a.cols + left + right,
   at |-> [r \in 0 .. a.rows + top + bottom - 1 |->
             [c \in 0 .. a.cols + left + right - 1 |->
                IF /\ r >= bottom /\ r < bottom + a.rows
                   /\ c >= left /\ c < left + a.cols
                THEN a.at[r - bottom][c - left]
                ELSE 0]]]

\* np.pad(a, [[top, bottom], [left, right]]): constant zero padding.
Pad(a, top, bottom, left, right) ==
  [rows |-> a.rows + top + bottom, cols |-> a.cols + left + right,
   at |-> [r \in 0 .. a.rows + top + bottom - 1 |->
             [c \in 0 .. a.cols + left + right - 1 |->
                IF /\ r >= top /\ r < top + a.rows
                   /\ c >= left /\ c < left + a.cols
                THEN a.at[r - top][c - left]
                ELSE 0]]]

\* Python index i into an axis of length n: negative indices count from the
\* end; -1 stands for an IndexError.
NormIndex(i, n) ==
  IF i >= 0 /\ i < n THEN i
  ELSE IF i < 0 /\ i >= 0 - n THEN i + n
  ELSE 0 - 1

InBounds(a, r, c) == NormIndex(r, a.rows) >= 0 /\ NormIndex(c, a.cols) >= 0

\* a[r, c] = v
SetAt(a, r, c, v) ==
  [a EXCEPT !.at[NormIndex(r, a.rows)][NormIndex(c, a.cols)] = v]

\* ------------------------------------------------------------- constructor
BuildColorsMap ==
  [i \in 0 .. 15 |-> hex_string_to_color_tuple(FOREGROUND_COLORS[i + 1])]

BuildBgColors ==
  [k \in DOMAIN BACKGROUND_COLORS |->
     hex_string_to_color_tuple(BACKGROUND_COLORS[k])]

BuildSpecialsMap(bgc) ==
  [s \in 0 .. 255 |-> bgc[get_special_background(s)]]

\* ------------------------------------------------------------ text backend
\* Fonts pg.font.SysFont('couriernew', 14, bold=True) can hand back: the
\* requested face where it is installed, or the fallback face otherwise.
\* height is the line height; width the advance of a glyph, space that of
\* the blank.
Fonts ==
  { [height |-> 17, width |-> 9, space |-> 9],
    [height |-> 16, width |-> 8, space |-> 8],
    [height |-> 15, width |-> 7, space |-> 7],
    [height |-> 17, width |-> 9, space |-> 4] }

\* self._font.render(c, True, color, background) as array3d(...).swapaxes(0, 1):
\* a patch of the font's size for c, drawn with ink color on fill background.
FontRender(f, c, color, background) ==
  [rows |-> f.height,
   cols |-> IF c = ORD_SPACE THEN f.space ELSE f.width,
   glyph |-> c, ink |-> color, fill |-> background]

\* Whether the face puts ink on pixel (i, j) of glyph c: the blank has none.
Ink(c, i, j) == c # ORD_SPACE /\ (i + j + c) % 3 = 0

\* Pixel (i, j) of a bitmap, for i < rows and j < cols.
Pixel(b, i, j) == IF Ink(b.glyph, i, j) THEN b.ink ELSE b.fill

\* patch[:nrows, :ncols]
Crop(patch, nrows, ncols) ==
  [patch EXCEPT !.rows = Min(@, nrows), !.cols = Min(@, ncols)]

\* ------------------------------------------------------------ _render_char
\* A faulty variant of the key: the background is left out.
CacheKeyNoBackground(c, color, background) == <<c, color>>

\* key = (c, tuple(color), tuple(background))
CacheKey(c, color, background) == <<c, color, background>>

\* One more run of the backend for key.
CountCall(calls, key) ==
  IF key \in DOMAIN calls
  THEN [calls EXCEPT ![key] = @ + 1]
  ELSE (key :> 1) @@ calls

\* A faulty variant of _render_char: the backend runs on every call and the
\* entry is written again.
render_char_uncached(f, cache, calls, c, color, background) ==
  LET key == CacheKey(c, color, background)
      single_character == FontRender(f, c, color, background)
      single_character_fixed_size ==
        Crop(single_character, TILE_ROWS, TILE_COLS)
      cache2 == (key :> single_character_fixed_size) @@ cache
  IN  [cache |-> cache2, calls |-> CountCall(calls, key),
       patch |-> single_character, tile |-> cache2[key]]

\* ImageRenderer._render_char on cache `cache`: the cache and the backend
\* call counts afterwards, the patch the backend returned on a miss (None on
\* a hit) and the tile returned.
render_char(f, cache, calls, c, color, background) ==
  LET key == CacheKey(c, color, background) IN
  IF key \notin DOMAIN cache
  THEN LET single_character == FontRender(f, c, color, background)
           single_character_fixed_size ==
             Crop(single_character, TILE_ROWS, TILE_COLS)
           cache2 == (key :> single_character_fixed_size) @@ cache
       IN  [cache |-> cache2, calls |-> CountCall(calls, key),
            patch |-> single_character, tile |-> cache2[key]]
  ELSE [cache |-> cache, calls |-> calls,
        patch |-> None, tile |-> cache[key]]

\* ------------------------------------------------------------------ render

\* s[lo].rows + ... + s[hi].rows and the same for cols (halving the range).
RECURSIVE SumRows(_, _, _)
SumRows(s, lo, hi) ==
  IF lo > hi THEN 0
  ELSE IF lo = hi THEN s[lo].rows
  ELSE SumRows(s, lo, (lo + hi) \div 2) + SumRows(s, (lo + hi) \div 2 + 1, hi)

RECURSIVE SumCols(_, _, _)
SumCols(s, lo, hi) ==
  IF lo > hi THEN 0
  ELSE IF lo = hi THEN s[lo].cols
  ELSE SumCols(s, lo, (lo + hi) \div 2) + SumCols(s, (lo + hi) \div 2 + 1, hi)

\* np.hstack of a row's tiles: the heights must agree; the widths add up.
HStack(tiles) ==
  IF \A i \in 1 .. Len(tiles) : tiles[i].rows = tiles[1].rows
  THEN [status |-> "ok", rows |-> tiles[1].rows,
        cols |-> SumCols(tiles, 1, Len(tiles)), tiles |-> tiles]
  ELSE [status |-> "ValueError", rows |-> 0, cols |-> 0, tiles |-> <<>>]

\* np.vstack of the row strips: the widths must agree; the heights add up.
VStack(strips) ==
  IF \A i \in 1 .. Len(strips) : strips[i].cols = strips[1].cols
  THEN [status |-> "ok", rows |-> SumRows(strips, 1, Len(strips)),
        cols |-> strips[1].cols, strips |-> strips]
  ELSE [status |-> "ValueError", rows |-> 0, cols |-> 0, strips |-> <<>>]

\* The one element of a singleton set.  Binding a result as the element of
\* a singleton set has it computed once, before the expression that uses it.
The(S) == CHOOSE v \in S : TRUE

\* _render_char for every argument triple of the set args, one after the
\* other: the cache and the backend call counts afterwards.
RECURSIVE RenderChars(_, _, _, _)
RenderChars(f, cache, calls, args) ==
  IF args = {} THEN [cache |-> cache, calls |-> calls]
  ELSE The({ RenderChars(f, r.cache, r.calls, args \ {a}) :
               a \in { CHOOSE a \in args : TRUE },
               r \in { render_char(f, cache, calls, a[1], a[2], a[3]) :
                         a \in { CHOOSE a \in args : TRUE } } })

\* The arguments _render_pos(x, y) hands to _render_char (lines 179-183).
RenderPosArgs(tty_chars, fg, bg, y, x) ==
  << represent_char(tty_chars.at[y][x]), fg.at[y][x], bg.at[y][x] >>

\* Lines 185-186 after the walk has been cut at `full` complete rows and
\* `part` cells of the row after them.  A call of _render_char whose key is
\* cached changes nothing and returns the cached tile, so the calls are made
\* once per distinct argument triple and each cell's tile is read from the
\* cache the calls leave.  np.hstack closes each complete row before the next
\* one starts: the walk ends at the first row it rejects, else at the first
\* index out of bounds, else with np.vstack of the 24 strips.
RenderWalk(f, cache, calls, tty_chars, fg, bg, full, part) ==
  The({ The({ IF \E y \in 1 .. full : strips[y].status # "ok"
              THEN The({ [status |-> "ValueError", image |-> None,
                          cache |-> cut.cache, calls |-> cut.calls] :
                           cut \in { RenderChars(f, cache, calls,
                                       { RenderPosArgs(tty_chars, fg, bg, y, x) :
                                           y \in 0 .. (CHOOSE b \in 1 .. full :
                                                        /\ strips[b].status # "ok"
                                                        /\ \A a \in 1 .. b - 1 :
                                                             strips[a].status = "ok") - 1,
                                           x \in 0 .. COLS - 1 }) } })
              ELSE IF full < ROWS
              THEN [status |-> "IndexError", image |-> None,
                    cache |-> after.cache, calls |-> after.calls]
              ELSE The({ [status |-> v.status,
                          image |-> IF v.status = "ok" THEN v ELSE None,
                          cache |-> after.cache, calls |-> after.calls] :
                           v \in { VStack(strips) } }) :
                strips \in { [y \in 1 .. full |->
                               HStack([x \in 1 .. COLS |->
                                         after.cache[CacheKey(
                                           represent_char(tty_chars.at[y - 1][x - 1]),
                                           fg.at[y - 1][x - 1],
                                           bg.at[y - 1][x - 1])]])] } }) :
          after \in { RenderChars(f, cache, calls,
                        { RenderPosArgs(tty_chars, fg, bg, y, x) :
                            y \in 0 .. full - 1, x \in 0 .. COLS - 1 }
                        \cup { RenderPosArgs(tty_chars, fg, bg, full, x) :
                                 x \in 0 .. part - 1 }) } })

\* np.vstack([np.hstack([_render_pos(x, y) for x in range(80)])
\*            for y in range(24)]): cell (y, x) indexes the three arrays, so
\* the walk reaches it when y and x are below every array's shape.
RenderGrid(f, cache, calls, tty_chars, fg, bg) ==
  LET h == Min(tty_chars.rows, Min(fg.rows, bg.rows))
      w == Min(tty_chars.cols, Min(fg.cols, bg.cols))
      full == IF w >= COLS THEN Min(h, ROWS) ELSE 0
      part == IF full < h /\ full < ROWS THEN Min(w, COLS) ELSE 0
  IN  RenderWalk(f, cache, calls, tty_chars, fg, bg, full, part)

\* Lines 157-158: the foreground array render works with.
ResolveForeground(cmap, obs, foreground_colors) ==
  IF ~IsNone(foreground_colors)
  THEN [status |-> "ok", value |-> foreground_colors]
  ELSE IF "tty_colors" \notin DOMAIN obs
       THEN [status |-> "KeyError", value |-> None]
       ELSE [status |-> "ok",
             value |-> ClipLookup(cmap, obs.tty_colors, 0, 15)]

\* A faulty variant of lines 173-175: the cursor's x indexes the rows.
ApplyCursorXY(bgc, obs, background) ==
  IF "tty_cursor" \notin DOMAIN obs
  THEN [status |-> "ok", value |-> background]
  ELSE IF ~InBounds(background, obs.tty_cursor[1], obs.tty_cursor[2])
       THEN [status |-> "IndexError", value |-> None]
       ELSE [status |-> "ok",
             value |-> SetAt(background, obs.tty_cursor[1],
                             obs.tty_cursor[2], bgc.cursor)]

\* Lines 173-175: the cursor's cell takes the cursor colour.
ApplyCursor(bgc, obs, background) ==
  IF "tty_cursor" \notin DOMAIN obs
  THEN [status |-> "ok", value |-> background]
  ELSE IF ~InBounds(background, obs.tty_cursor[2], obs.tty_cursor[1])
       THEN [status |-> "IndexError", value |-> None]
       ELSE [status |-> "ok",
             value |-> SetAt(background, obs.tty_cursor[2],
                             obs.tty_cursor[1], bgc.cursor)]

\* Lines 160-175: the background array render works with.
ResolveBackground(cmap, bgc, smap, obs, background_colors) ==
  IF ~IsNone(background_colors)
  THEN [status |-> "ok", value |-> background_colors]
  ELSE IF "specials" \in DOMAIN obs
       THEN LET padded_specials == Pad(obs.specials, 1, 2, 0, 1)
            IN  ApplyCursor(bgc, obs, ClipLookup(smap, padded_specials, 0, 255))
       ELSE IF "tty_background" \in DOMAIN obs
            THEN ApplyCursor(bgc, obs,
                             ClipLookup(cmap, obs.tty_background, 0, 15))
            ELSE ApplyCursor(bgc, obs, Zeros(ROWS, COLS))

\* Lines 177-186, with the colour arrays fg and bg resolved.
RenderResolved(f, cache, calls, obs, fg, bg) ==
  IF fg.status # "ok"
  THEN [status |-> fg.status, image |-> None, cache |-> cache,
        calls |-> calls, fg |-> None, bg |-> None]
  ELSE IF bg.status # "ok"
  THEN [status |-> bg.status, image |-> None, cache |-> cache,
        calls |-> calls, fg |-> fg.value, bg |-> None]
  ELSE IF "tty_chars" \notin DOMAIN obs
  THEN [status |-> "KeyError", image |-> None, cache |-> cache,
        calls |-> calls, fg |-> fg.value, bg |-> bg.value]
  ELSE The({ [status |-> r.status, image |-> r.image, cache |-> r.cache,
              calls |-> r.calls, fg |-> fg.value, bg |-> bg.value] :
               r \in { RenderGrid(f, cache, calls, tty_chars, fg.value,
                                  bg.value) :
                         tty_chars \in { ClipArray(obs.tty_chars, 0, 255) } } })

\* ImageRenderer.render: status "ok" and the image, or the exception raised;
\* with them the cache and call counts afterwards and the two colour arrays
\* (None when the call ended before the array was made).
render(f, cmap, bgc, smap, cache, calls, obs, foreground_colors, background_colors) ==
  The({ RenderResolved(f, cache, calls, obs, fg, bg) :
          fg \in { ResolveForeground(cmap, obs, foreground_colors) },
          bg \in { ResolveBackground(cmap, bgc, smap, obs,
                                     background_colors) } })

\* ------------------------------------------------------------------ inputs
\* An h x w array holding base everywhere but at the cells of spots.
Grid(h, w, base, spots) ==
  [rows |-> h, cols |-> w,
   at |-> [r \in 0 .. h - 1 |->
             [c \in 0 .. w - 1 |->
                IF <<r, c>> \in DOMAIN spots THEN spots[<<r, c>>] ELSE base]]]

NoSpots == [p \in {} |-> 0]

\* tty_chars: every cell 0; a screen of text; one row and column too many;
\* one row too few.
CharsBlank == Grid(ROWS, COLS, 0, NoSpots)
CharsText ==
  Grid(ROWS, COLS, 46,
       (<<0, 0>> :> 65) @@ (<<3, 5>> :> ORD_BACKTICK) @@ (<<23, 79>> :> 0)
         @@ (<<21, 78>> :> 64))
CharsBig == Grid(ROWS + 1, COLS + 1, 46, (<<24, 80>> :> 65))
CharsSmall == Grid(ROWS - 1, COLS, 46, NoSpots)

\* tty_colors, with indices below 0 and above 15 among them.
ColorsMixed ==
  Grid(ROWS, COLS, 7,
       (<<0, 0>> :> (0 - 1)) @@ (<<3, 5>> :> 16) @@ (<<23, 79>> :> 15)
         @@ (<<21, 78>> :> 0) @@ (<<10, 10>> :> 300) @@ (<<10, 11>> :> 3))
ColorsNarrow == Grid(ROWS, COLS - 1, 7, NoSpots)

\* specials: 21 x 79 with single and combined flags and values outside
\* 0..255; 21 x 79 with a flag on every cell; and two other shapes.
SpecialsSparse ==
  Grid(21, 79, 0,
       (<<0, 0>> :> 1) @@ (<<2, 5>> :> 9) @@ (<<20, 78>> :> 8)
         @@ (<<5, 5>> :> 256) @@ (<<6, 6>> :> (0 - 1)) @@ (<<7, 7>> :> 128)
         @@ (<<8, 8>> :> 48) @@ (<<20, 0>> :> 2))
SpecialsDense == Grid(21, 79, 8, (<<0, 78>> :> 1) @@ (<<20, 0>> :> 128))
SpecialsFull == Grid(ROWS, COLS, 8, NoSpots)
SpecialsShort == Grid(20, 79, 8, NoSpots)

\* tty_background, with indices below 0 and above 15 among them.
BackgroundMixed ==
  Grid(ROWS, COLS, 0,
       (<<0, 0>> :> 4) @@ (<<3, 5>> :> 2) @@ (<<1, 1>> :> (0 - 1))
         @@ (<<2, 2>> :> 16) @@ (<<23, 79>> :> 20))

\* RGB override arrays.
FgOverride == Grid(ROWS, COLS, <<200, 200, 200>>, (<<3, 5>> :> <<1, 2, 3>>))
BgOverride == Grid(ROWS, COLS, <<10, 20, 30>>, (<<0, 0>> :> <<0, 0, 0>>))
BgOverrideNarrow == Grid(ROWS, COLS - 1, <<10, 20, 30>>, NoSpots)

\* An observation dict: the keys that are present.
Field(name, present, value) ==
  IF present THEN (name :> value) ELSE [k \in {} |-> 0]

\* tty_cursor is the pair (x, y); the empty tuple stands for no cursor.
NoCursor == <<>>

MakeObs(chars, colors, specials, background, cursor) ==
  Field("tty_chars", ~IsNone(chars), chars)
    @@ Field("tty_colors", ~IsNone(colors), colors)
    @@ Field("specials", ~IsNone(specials), specials)
    @@ Field("tty_background", ~IsNone(background), background)
    @@ Field("tty_cursor", cursor # NoCursor, cursor)

\* The arguments (obs, foreground_colors, background_colors) of one call.
Frame(obs, foreground_colors, background_colors) ==
  [obs |-> obs, foreground_colors |-> foreground_colors,
   background_colors |-> background_colors]

\* The text screen with its colours over the background sources: none, each
\* source alone, with the cursor, and two sources at once.
TextFrames ==
  { Frame(MakeObs(CharsText, ColorsMixed, b[1], b[2], b[3]), None, b[4]) :
      b \in { <<None, None, NoCursor, None>>,
              <<None, None, <<5, 3>>, None>>,
              <<None, None, <<79, 23>>, None>>,
              <<SpecialsSparse, None, NoCursor, None>>,
              <<SpecialsSparse, None, <<5, 3>>, None>>,
              <<SpecialsDense, None, NoCursor, None>>,
              <<SpecialsDense, None, <<79, 23>>, None>>,
              <<None, BackgroundMixed, NoCursor, None>>,
              <<None, BackgroundMixed, <<5, 3>>, None>>,
              <<SpecialsSparse, BackgroundMixed, NoCursor, None>>,
              <<None, None, NoCursor, BgOverride>>,
              <<None, None, <<5, 3>>, BgOverride>>,
              <<SpecialsSparse, None, NoCursor, BgOverride>> } }

\* Frames without tty_colors: the blank screen with nothing else, and the
\* text screen with a foreground override.
BareFrames ==
  { Frame(MakeObs(CharsBlank, None, None, None, NoCursor), None, None),
    Frame(MakeObs(CharsText, None, None, None, NoCursor), FgOverride, None),
    Frame(MakeObs(CharsText, None, None, None, <<5, 3>>), FgOverride,
          BgOverride) }

\* Well-shaped frames.
GoodFrames == TextFrames \cup BareFrames

\* Frames with one grid of another shape, and one without tty_chars.
OddFrames ==
  { Frame(MakeObs(CharsBig, Grid(ROWS + 1, COLS + 1, 7, NoSpots), None, None,
                  NoCursor), None, None),
    Frame(MakeObs(CharsSmall, ColorsMixed, None, None, NoCursor), None, None),
    Frame(MakeObs(CharsText, ColorsNarrow, None, None, NoCursor), None, None),
    Frame(MakeObs(CharsText, ColorsMixed, SpecialsFull, None, NoCursor), None,
          None),
    Frame(MakeObs(CharsText, ColorsMixed, SpecialsShort, None, NoCursor),
          None, None),
    Frame(MakeObs(CharsText, ColorsMixed, None, None, NoCursor), None,
          BgOverrideNarrow),
    Frame(MakeObs(None, ColorsMixed, None, None, NoCursor), None, None) }

Frames == GoodFrames \cup OddFrames

\* Frames replayed against a cache earlier calls have filled.
ReplayFrames ==
  { Frame(MakeObs(CharsText, ColorsMixed, None, None, NoCursor), None, None),
    Frame(MakeObs(CharsText, ColorsMixed, None, None, <<5, 3>>), None, None),
    Frame(MakeObs(CharsText, ColorsMixed, SpecialsSparse, None, NoCursor),
          None, None),
    Frame(MakeObs(CharsText, None, None, None, NoCursor), FgOverride,
          BgOverride),
    Frame(MakeObs(CharsSmall, ColorsMixed, None, None, NoCursor), None, None) }

\* Arguments of the direct _render_char calls: characters, colours of the
\* palette and a colour outside it.
TileChars == {ORD_SPACE, 46}
TileInks == {<<255, 255, 255>>, <<200, 200, 200>>}
TileFills == {<<0, 0, 0>>, <<85, 85, 85>>}

\* ----------------------------------------------------------- state machine
Init ==
  /\ font \in Fonts
  /\ colors_map = BuildColorsMap
  /\ bgcolors = BuildBgColors
  /\ specials_map = BuildSpecialsMap(BuildBgColors)
  /\ TILE_CACHE = [k \in {} |-> None]
  /\ backend_calls = [k \in {} |-> 0]
  /\ call = [op |-> "none"]
  /\ ncalls = 0

\* One call of render(obs, foreground_colors, background_colors).
Render(fr) ==
  \E r \in { render(font, colors_map, bgcolors, specials_map, TILE_CACHE,
                    backend_calls, fr.obs, fr.foreground_colors,
                    fr.background_colors) } :
      /\ TILE_CACHE' = r.cache
      /\ backend_calls' = r.calls
      /\ call' = [op |-> "render", obs |-> fr.obs,
                  foreground_colors |-> fr.foreground_colors,
                  background_colors |-> fr.background_colors,
                  status |-> r.status, image |-> r.image,
                  fg |-> r.fg, bg |-> r.bg]
      /\ ncalls' = ncalls + 1
      /\ UNCHANGED <<font, colors_map, bgcolors, specials_map>>

\* One call of _render_char(c, color, background).
RenderChar(c, color, background) ==
  \E r \in { render_char(font, TILE_CACHE, backend_calls, c, color,
                         background) } :
      /\ TILE_CACHE' = r.cache
      /\ backend_calls' = r.calls
      /\ call' = [op |-> "_render_char", c |-> c, color |-> color,
                  background |-> background, patch |-> r.patch,
                  tile |-> r.tile]
      /\ ncalls' = ncalls + 1
      /\ UNCHANGED <<font, colors_map, bgcolors, specials_map>>

\* One call of get_special_background(special).
GetSpecialBackground(special) ==
  /\ call' = [op |-> "get_special_background", special |-> special,
              situation |-> get_special_background(special)]
  /\ UNCHANGED <<font, colors_map, bgcolors, specials_map, TILE_CACHE,
                 backend_calls, ncalls>>

RenderFrame == ncalls < MaxFrames /\ \E fr \in Frames : Render(fr)

RenderTile ==
  /\ ncalls < MaxFrames
  /\ \E c \in TileChars, color \in TileInks, background \in TileFills :
       RenderChar(c, color, background)

Next == RenderFrame \/ RenderTile

Spec == Init /\ [][Next]_vars

ReplayFrame == ncalls < MaxCalls /\ \E fr \in ReplayFrames : Render(fr)

ReplayTile ==
  /\ ncalls < MaxCalls
  /\ \E c \in TileChars, background \in TileFills :
       RenderChar(c, <<255, 255, 255>>, background)

NextCache == ReplayFrame \/ ReplayTile

SpecCache == Init /\ [][NextCache]_vars

ResolveSpecial == \E special \in 0 .. 255 : GetSpecialBackground(special)

NextSpecial == ResolveSpecial

SpecSpecial == Init /\ [][NextSpecial]_vars

\* ------------------------------------------------------------------ claims
\* The fixed priority list of the situations, each with its mask.
Priority ==
  << [name |-> "corpse", mask |-> MG_CORPSE],
     [name |-> "invis", mask |-> MG_INVIS],
     [name |-> "detect", mask |-> MG_DETECT],
     [name |-> "pet", mask |-> MG_PET],
     [name |-> "ridden", mask |-> MG_RIDDEN],
     [name |-> "statue", mask |-> MG_STATUE],
     [name |-> "objpile", mask |-> MG_OBJPILE],
     [name |-> "bwlava", mask |-> MG_BW_LAVA] >>

\* Whether the bit of the one-bit mask is set in s.
HasFlag(s, mask) == (s \div mask) % 2 = 1

\* The earliest entry of Priority whose mask meets s, or "default".
Earliest(s) ==
  IF \E i \in DOMAIN Priority : HasFlag(s, Priority[i].mask)
  THEN Priority[CHOOSE i \in DOMAIN Priority :
                  /\ HasFlag(s, Priority[i].mask)
                  /\ \A j \in 1 .. i - 1 : ~HasFlag(s, Priority[j].mask)].name
  ELSE "default"

\* C1: for every bitfield value s in 0..255 get_special_background(s) is the
\* earliest entry of the priority list whose mask has a non-zero AND with s,
\* or "default" when none has; and the table the constructor builds has 256
\* entries and holds at index s the colour of that situation.
C1_SpecialPriority ==
  /\ DOMAIN specials_map = 0 .. 255
  /\ \A s \in 0 .. 255 : specials_map[s] = bgcolors[Earliest(s)]
  /\ call.op = "get_special_background" =>
       /\ call.situation = Earliest(call.special)
       /\ specials_map[call.special] = bgcolors[call.situation]

\* C1's case: corpse and pet are both set and corpse is returned.
C1_Witness ==
  /\ call.op = "get_special_background"
  /\ call.special = MG_CORPSE + MG_PET
  /\ call.situation = "corpse"
  /\ specials_map[call.special] = <<0, 0, 170>>

\* A render call that got as far as resolving its background.
RenderedBackground == call.op = "render" /\ ~IsNone(call.bg)

\* The observation without its cursor.
WithoutCursor(obs) == [k \in DOMAIN obs \ {"tty_cursor"} |-> obs[k]]

\* The cell (row, column) of the observation's cursor (x, y).
IsCursorCell(obs, r, c) ==
  /\ "tty_cursor" \in DOMAIN obs
  /\ r = obs.tty_cursor[2]
  /\ c = obs.tty_cursor[1]

\* bg is `plain` with the cursor colour on the cursor's cell of obs.
CursorOver(obs, bg, plain) ==
  /\ bg.rows = plain.rows
  /\ bg.cols = plain.cols
  /\ \A r \in 0 .. bg.rows - 1, c \in 0 .. bg.cols - 1 :
       bg.at[r][c] = IF IsCursorCell(obs, r, c) THEN bgcolors.cursor
                     ELSE plain.at[r][c]

\* The fill of the tile placed for cell (r, c) of the image of an ok call.
FillAt(image, r, c) == image.strips[r + 1].tiles[c + 1].fill

\* C2 as stated: for every render call whose observation has a cursor (x, y),
\* the background used for cell (row y, column x) is the cursor colour and
\* every other cell's is what it is without the cursor.
C2_CursorAlways ==
  (RenderedBackground /\ "tty_cursor" \in DOMAIN call.obs) =>
    \A plain \in { ResolveBackground(colors_map, bgcolors, specials_map,
                                     WithoutCursor(call.obs),
                                     call.background_colors).value } :
      CursorOver(call.obs, call.bg, plain)

\* C2, amended: the same for every render call that is given no
\* background_colors override; with neither specials nor tty_background
\* every other cell is black; and a call that returns an image has drawn the
\* cursor's cell on the cursor colour.
C2_CursorWithoutOverride ==
  (RenderedBackground /\ "tty_cursor" \in DOMAIN call.obs
     /\ IsNone(call.background_colors)) =>
    /\ \A plain \in { ResolveBackground(colors_map, bgcolors, specials_map,
                                        WithoutCursor(call.obs), None).value } :
         /\ CursorOver(call.obs, call.bg, plain)
         /\ ("specials" \notin DOMAIN call.obs
               /\ "tty_background" \notin DOMAIN call.obs) =>
              \A r \in 0 .. ROWS - 1, c \in 0 .. COLS - 1 :
                plain.at[r][c] = <<0, 0, 0>>
    /\ call.status = "ok" =>
         FillAt(call.image, call.obs.tty_cursor[2], call.obs.tty_cursor[1])
           = bgcolors.cursor

\* C2's case: the cursor (5, 3) over a background derived from specials, in
\* a call that returned an image.
C2_Witness ==
  /\ RenderedBackground
  /\ IsNone(call.background_colors)
  /\ "specials" \in DOMAIN call.obs
  /\ "tty_cursor" \in DOMAIN call.obs
  /\ call.obs.tty_cursor = <<5, 3>>
  /\ call.bg.at[3][5] = <<85, 85, 85>>
  /\ call.bg.at[1][0] = <<0, 0, 170>>
  /\ call.status = "ok"

\* The nearest value of lo..hi to v.
Nearest(v, lo, hi) == IF v < lo THEN lo ELSE IF v > hi THEN hi ELSE v

\* A render call that derived its background from a 21 x 79 specials grid.
FromSpecials ==
  /\ RenderedBackground
  /\ IsNone(call.background_colors)
  /\ "specials" \in DOMAIN call.obs
  /\ call.obs.specials.rows = 21
  /\ call.obs.specials.cols = 79

\* C7: a 21 x 79 specials grid is padded with 1 row on top, 2 at the bottom,
\* none on the left and 1 column on the right before the lookup: the
\* background is 24 x 80, cell (r, c) with 1 <= r <= 21 and c <= 78 has the
\* colour of specials[r-1][c], and row 0, rows 22 and 23 and column 79 have
\* the default colour (the cursor's cell aside).
C7_SpecialsPadding ==
  FromSpecials =>
    /\ call.bg.rows = ROWS
    /\ call.bg.cols = COLS
    /\ \A r \in 0 .. ROWS - 1, c \in 0 .. COLS - 1 :
         \/ IsCursorCell(call.obs, r, c)
         \/ call.bg.at[r][c] =
              IF r >= 1 /\ r <= 21 /\ c <= 78
              THEN bgcolors[Earliest(Nearest(call.obs.specials.at[r - 1][c],
                                             0, 255))]
              ELSE bgcolors.default

\* C7's case: flags in the first and the last row of specials colour rows 1
\* and 21, and a flag in its last column colours column 78.
C7_Witness ==
  /\ FromSpecials
  /\ call.obs.specials.at[0][0] = MG_CORPSE
  /\ call.obs.specials.at[20][78] = MG_PET
  /\ call.bg.at[1][0] = <<0, 0, 170>>
  /\ call.bg.at[21][78] = <<255, 255, 255>>
  /\ call.bg.at[22][78] = <<0, 0, 0>>
  /\ call.bg.at[21][79] = <<0, 0, 0>>

\* C8: a colour index outside 0..15 resolves as the nearest index of 0..15,
\* for the foreground and for a background taken from tty_background, and a
\* specials value outside 0..255 as the nearest value of 0..255; such a value
\* is no error.
C8_Clamping ==
  /\ (call.op = "render" /\ IsNone(call.foreground_colors)
        /\ "tty_colors" \in DOMAIN call.obs) =>
       /\ ~IsNone(call.fg)
       /\ call.fg.rows = call.obs.tty_colors.rows
       /\ call.fg.cols = call.obs.tty_colors.cols
       /\ \A r \in 0 .. call.fg.rows - 1, c \in 0 .. call.fg.cols - 1 :
            call.fg.at[r][c] =
              colors_map[Nearest(call.obs.tty_colors.at[r][c], 0, 15)]
  /\ (RenderedBackground /\ IsNone(call.background_colors)
        /\ "specials" \notin DOMAIN call.obs
        /\ "tty_background" \in DOMAIN call.obs) =>
       \A r \in 0 .. call.bg.rows - 1, c \in 0 .. call.bg.cols - 1 :
         \/ IsCursorCell(call.obs, r, c)
         \/ call.bg.at[r][c] =
              colors_map[Nearest(call.obs.tty_background.at[r][c], 0, 15)]
  /\ (RenderedBackground /\ IsNone(call.background_colors)
        /\ "specials" \in DOMAIN call.obs) =>
       \A r \in 0 .. call.obs.specials.rows - 1,
          c \in 0 .. call.obs.specials.cols - 1 :
         \/ IsCursorCell(call.obs, r + 1, c)
         \/ call.bg.at[r + 1][c] =
              specials_map[Nearest(call.obs.specials.at[r][c], 0, 255)]

\* C8's case: the indices -1 and 300 and the specials values -1 and 256 in a
\* call that returned an image.
C8_Witness ==
  /\ RenderedBackground
  /\ call.status = "ok"
  /\ IsNone(call.foreground_colors)
  /\ IsNone(call.background_colors)
  /\ "tty_colors" \in DOMAIN call.obs
  /\ "specials" \in DOMAIN call.obs
  /\ call.obs.tty_colors.at[0][0] = 0 - 1
  /\ call.obs.tty_colors.at[10][10] = 300
  /\ call.fg.at[0][0] = colors_map[0]
  /\ call.fg.at[10][10] = colors_map[15]
  /\ call.obs.specials.at[5][5] = 256
  /\ call.obs.specials.at[6][6] = 0 - 1
  /\ call.bg.at[6][5] = specials_map[255]
  /\ call.bg.at[7][6] = specials_map[0]

\* C3: a cache entry stays in the cache with the bitmap it had, the backend
\* does not run again for its key, a _render_char call for a cached key
\* returns the cached bitmap, and the backend has run exactly once for every
\* key of the cache.
C3_CacheStable ==
  [][ /\ \A k \in DOMAIN TILE_CACHE :
           /\ k \in DOMAIN TILE_CACHE'
           /\ TILE_CACHE'[k] = TILE_CACHE[k]
           /\ backend_calls'[k] = backend_calls[k]
           /\ (call'.op = "_render_char"
                 /\ k = <<call'.c, call'.color, call'.background>>) =>
                call'.tile = TILE_CACHE[k]
      /\ DOMAIN backend_calls' = DOMAIN TILE_CACHE'
      /\ \A k \in DOMAIN TILE_CACHE' : backend_calls'[k] = 1 ]_vars

\* C3's case: a _render_char call answered from a cache that an earlier
\* render call has filled.
C3_Witness ==
  /\ call.op = "_render_char"
  /\ IsNone(call.patch)
  /\ ncalls = 2
  /\ Cardinality(DOMAIN TILE_CACHE) > 1
  /\ call.tile = TILE_CACHE[<<call.c, call.color, call.background>>]

\* C4: whatever the cache holds when render is called, the call ends as the
\* same call on an empty cache ends: with the same outcome and the same
\* image.
C4_CacheIndependent ==
  call.op = "render" =>
    \A fresh \in { render(font, colors_map, bgcolors, specials_map,
                          [k \in {} |-> None], [k \in {} |-> 0], call.obs,
                          call.foreground_colors, call.background_colors) } :
      /\ call.status = fresh.status
      /\ call.image = fresh.image

\* C4's case: a render call that returned an image from a cache that held
\* tiles of another frame, drawn on the override background.
C4_Witness ==
  /\ call.op = "render"
  /\ call.status = "ok"
  /\ ncalls = 2
  /\ IsNone(call.background_colors)
  /\ \E k \in DOMAIN TILE_CACHE : k[3] = <<10, 20, 30>>

\* Every pixel of the image is black: each tile is filled black and puts no
\* ink or black ink on it.
AllBlack(image) ==
  \A y \in 1 .. Len(image.strips) :
    \A x \in 1 .. Len(image.strips[y].tiles) :
      /\ image.strips[y].tiles[x].fill = <<0, 0, 0>>
      /\ \/ image.strips[y].tiles[x].glyph = ORD_SPACE
         \/ image.strips[y].tiles[x].ink = <<0, 0, 0>>

\* C5: a render call with no overrides whose observation has tty_chars and
\* none of tty_colors, specials, tty_background and tty_cursor ends without
\* an error; when every cell of tty_chars is 0 the image is 384 x 640 and
\* black all over.
C5_BareObservation ==
  (call.op = "render" /\ IsNone(call.foreground_colors)
     /\ IsNone(call.background_colors)
     /\ DOMAIN call.obs = {"tty_chars"}) =>
    /\ call.status = "ok"
    /\ (\A r \in 0 .. call.obs.tty_chars.rows - 1,
           c \in 0 .. call.obs.tty_chars.cols - 1 :
          call.obs.tty_chars.at[r][c] = 0) =>
         /\ call.image.rows = 384
         /\ call.image.cols = 640
         /\ AllBlack(call.image)

\* The call of C5 that ends with the exception.
C5_Witness ==
  /\ call.op = "render"
  /\ IsNone(call.foreground_colors)
  /\ IsNone(call.background_colors)
  /\ DOMAIN call.obs = {"tty_chars"}
  /\ call.status = "KeyError"

\* Some grid handed to the call has another shape than rows x cols, the
\* specials grid counted with its padding.
IllShaped(obs, foreground_colors, background_colors, rows, cols) ==
  \/ \E k \in DOMAIN obs \cap {"tty_chars", "tty_colors", "tty_background"} :
       obs[k].rows # rows \/ obs[k].cols # cols
  \/ /\ "specials" \in DOMAIN obs
     /\ obs.specials.rows + 3 # rows \/ obs.specials.cols + 1 # cols
  \/ /\ ~IsNone(foreground_colors)
     /\ foreground_colors.rows # rows \/ foreground_colors.cols # cols
  \/ /\ ~IsNone(background_colors)
     /\ background_colors.rows # rows \/ background_colors.cols # cols

\* C6: a render call with a grid that is not 24 x 80 ends in an error and
\* returns no image.
C6_ShapeChecked ==
  (call.op = "render"
     /\ IllShaped(call.obs, call.foreground_colors, call.background_colors,
                  24, 80)) =>
    /\ call.status # "ok"
    /\ IsNone(call.image)

\* A call of C6 that returned an image: of 25 x 81 grids, of which it drew
\* the top-left 24 x 80 cells.
C6_Witness ==
  /\ call.op = "render"
  /\ "tty_chars" \in DOMAIN call.obs
  /\ call.obs.tty_chars.rows = 25
  /\ call.obs.tty_chars.cols = 81
  /\ call.status = "ok"
  /\ Len(call.image.strips) = 24
  /\ Len(call.image.strips[1].tiles) = 80

\* A render call on 24 x 80 inputs: tty_chars and the two colour arrays the
\* call resolved or was given.
WellShaped ==
  /\ call.op = "render"
  /\ "tty_chars" \in DOMAIN call.obs
  /\ ~IsNone(call.fg)
  /\ ~IsNone(call.bg)
  /\ ~IllShaped(call.obs, call.foreground_colors, call.background_colors,
                24, 80)

\* represent_char as the claim states it.
Represented(c) == IF c = 0 THEN 32 ELSE IF c = 96 THEN 48 ELSE c

\* C9: for 24 x 80 inputs render returns an image of 384 x 640 whose 16 x 8
\* block at (r*16, c*8) is the bitmap of the represented character of cell
\* (r, c) in that cell's foreground on that cell's background.
C9_ImageBlocks ==
  WellShaped =>
    /\ call.status = "ok"
    /\ call.image.rows = 384
    /\ call.image.cols = 640
    /\ \A r \in 0 .. 23, c \in 0 .. 79 :
         call.image.strips[r + 1].tiles[c + 1] =
           [rows |-> 16, cols |-> 8,
            glyph |-> Represented(call.obs.tty_chars.at[r][c]),
            ink |-> call.fg.at[r][c], fill |-> call.bg.at[r][c]]

\* A call of C9 that returned an image of another size.
C9_Witness ==
  /\ WellShaped
  /\ call.status = "ok"
  /\ call.image.rows = 360
  /\ call.image.cols = 560

\* C10: the bitmap _render_char returns and every bitmap of the cache has 16
\* rows and 8 columns, and where the backend ran, pixel (i, j) of the bitmap
\* is pixel (i, j) of the backend's patch.
C10_TileExactly16x8 ==
  /\ \A k \in DOMAIN TILE_CACHE :
       TILE_CACHE[k].rows = 16 /\ TILE_CACHE[k].cols = 8
  /\ call.op = "_render_char" =>
       /\ call.tile.rows = 16
       /\ call.tile.cols = 8
       /\ ~IsNone(call.patch) =>
            \A i \in 0 .. Min(call.tile.rows, call.patch.rows) - 1,
               j \in 0 .. Min(call.tile.cols, call.patch.cols) - 1 :
              Pixel(call.tile, i, j) = Pixel(call.patch, i, j)

\* A call of C10 whose patch was smaller than 16 x 8 and came back as it was.
C10_Witness ==
  /\ call.op = "_render_char"
  /\ ~IsNone(call.patch)
  /\ call.patch.rows = 15
  /\ call.patch.cols = 7
  /\ call.tile.rows = 15
  /\ call.tile.cols = 7

====
